---- MODULE Spec2Model ----
(***************************************************************************)
(* A model of the annotate CLI (src/unnamed/part_000, the variant with     *)
(* --mode; src/main.go shares loadEnvelope, saveEnvelope and               *)
(* readSummaryFile line for line).                                         *)
(*                                                                         *)
(* One invocation of the binary is one process: it loads the annotations   *)
(* file, merges one request into the envelope in memory and saves the      *)
(* envelope with WriteFile(tmp) + Rename(tmp, final).  The file system is  *)
(* shared by all invocations; every system call is one step, so that the   *)
(* steps of two invocations can interleave.                                *)
(***************************************************************************)
EXTENDS Integers, Sequences, FiniteSets, TLC

(***************************************************************************)
(* Bounds of the model.                                                    *)
(***************************************************************************)
\* how many invocations of the binary a behaviour of Spec or SpecRace holds
MaxInvocations == 2
\* how many invocations a behaviour of SpecIds holds
MaxIdInvocations == 3
\* the last second the wall clock reaches (a formatted time.Now() has the
\* resolution of one second)
MaxClock == 1

\* how many invocations a behaviour of SpecModes holds
MaxModeInvocations == 3

(***************************************************************************)
(* Program constants.                                                      *)
(***************************************************************************)
MaxSummaryFileBytes == 64 * 1024

(***************************************************************************)
(* The inputs of an invocation: its flags and its environment.             *)
(***************************************************************************)
Procs == {"p1", "p2"}
Solo == {"p1"}

Contexts == {"build", "test"}
Styles == {"", "info"}
Modes == {"replace", "append", "delete", "bogus"}
Priorities == {-1, 0, 5}
ExecutionIDs == {"", " ", "E1", "E2"}

\* The summary files on disk (never written by the program).  data stands for
\* the bytes of the file and size is what Stat reports: K64 stands for a text
\* of exactly MaxSummaryFileBytes bytes, locked.md can be stat'ed but not read.
SummaryPaths == {"", "a.md", "max.md", "big.md", "missing.md", "locked.md"}

SummaryFS(path) ==
    CASE path = "a.md"      -> [exists |-> TRUE, readable |-> TRUE, size |-> 1, data |-> "A"]
      [] path = "max.md"    -> [exists |-> TRUE, readable |-> TRUE, size |-> MaxSummaryFileBytes, data |-> "K64"]
      [] path = "big.md"    -> [exists |-> TRUE, readable |-> TRUE, size |-> MaxSummaryFileBytes + 1, data |-> "K64+"]
      [] path = "locked.md" -> [exists |-> TRUE, readable |-> FALSE, size |-> 1, data |-> "L"]
      [] OTHER              -> [exists |-> FALSE, readable |-> FALSE, size |-> 0, data |-> ""]

\* the summary files of the requests of Spec
MergePaths == {"", "a.md", "max.md", "missing.md"}

\* the requests of Spec: every flag varies, HARNESS_EXECUTION_ID is unset
Requests ==
    [contextName : Contexts, style : Styles, summaryFile : MergePaths,
     mode : Modes, priority : Priorities, executionID : {""}]

\* the requests of SpecIds: HARNESS_EXECUTION_ID and the summary file vary
IdRequests ==
    [contextName : Contexts, style : {""}, summaryFile : SummaryPaths,
     mode : {"replace"}, priority : {0}, executionID : ExecutionIDs]

\* the requests of SpecModes: the mode flag varies over the three modes, the
\* empty string and other strings (the code compares the flag as given)
AllModes == {"replace", "append", "delete", "", "bogus", "APPEND"}

ModeRequests ==
    [contextName : Contexts, style : {""}, summaryFile : {"", "a.md"},
     mode : AllModes, priority : {0}, executionID : {""}]

\* the requests of SpecModeless (src/main.go has no mode flag)
ModelessRequests ==
    [contextName : Contexts, style : Styles, summaryFile : {"", "a.md", "max.md"},
     mode : {""}, priority : {0, 5}, executionID : {"", "E1"}]

\* the requests of the invocations that race
RaceRequests ==
    [contextName : Contexts, style : {""}, summaryFile : {"a.md"},
     mode : {"replace", "append"}, priority : {0}, executionID : {""}]

NoRequest ==
    [contextName |-> "", style |-> "", summaryFile |-> "", mode |-> "",
     priority |-> 0, executionID |-> ""]

\* whether the environment lets a system call succeed
Faults == BOOLEAN
NoFaults == {TRUE}

\* how a write ends: all of data written, or an error after some or none of
\* it; "torn": all written, over the longer bytes of another writer
Writes == {"all", "some", "none"}
RaceWrites == {"all", "torn"}

(***************************************************************************)
(* The envelope in memory and its JSON document.                           *)
(***************************************************************************)
EmptyEnvelope == [PlanExecutionID |-> "", Annotations |-> <<>>]

\* time.Now().Format(time.RFC3339) of the clock reading t (whole seconds)
RFC3339(t) == "2026-01-01T00:00:0" \o ToString(t) \o "Z"

\* A JSON object is the sequence of its <<key, value>> members in the order
\* they are written.  An array value is [null |-> FALSE, items |-> <<...>>],
\* the JSON null is [null |-> TRUE, items |-> <<>>].
HasKey(obj, key) == \E i \in 1..Len(obj) : obj[i][1] = key

\* encoding/json keeps the last of several members with one key
Member(obj, key) ==
    obj[CHOOSE i \in 1..Len(obj) :
            /\ obj[i][1] = key
            /\ \A j \in (i+1)..Len(obj) : obj[j][1] # key][2]

MarshalEntry(e) ==
    << <<"context_name", e.ContextName>>,
       <<"timestamp", e.Timestamp>>,
       <<"style", e.Style>>,
       <<"summary", e.Summary>>,
       <<"summary_file", e.SummaryFile>>,
       <<"priority", e.Priority>> >>
    \o (IF e.Mode # "" THEN << <<"mode", e.Mode>> >> ELSE <<>>)

\* json.MarshalIndent(env): planExecutionId is omitted when empty, a nil
\* slice is written as null
Marshal(env) ==
    (IF env.PlanExecutionID # ""
        THEN << <<"planExecutionId", env.PlanExecutionID>> >>
        ELSE <<>>)
    \o << <<"annotations",
            IF env.Annotations = <<>>
               THEN [null |-> TRUE, items |-> <<>>]
               ELSE [null |-> FALSE,
                     items |-> [i \in 1..Len(env.Annotations) |->
                                   MarshalEntry(env.Annotations[i])]]>> >>

UnmarshalEntry(obj) ==
    [ContextName |-> IF HasKey(obj, "context_name") THEN Member(obj, "context_name") ELSE "",
     Timestamp   |-> IF HasKey(obj, "timestamp") THEN Member(obj, "timestamp") ELSE "",
     Style       |-> IF HasKey(obj, "style") THEN Member(obj, "style") ELSE "",
     Summary     |-> IF HasKey(obj, "summary") THEN Member(obj, "summary") ELSE "",
     SummaryFile |-> IF HasKey(obj, "summary_file") THEN Member(obj, "summary_file") ELSE "",
     Priority    |-> IF HasKey(obj, "priority") THEN Member(obj, "priority") ELSE 0,
     Mode        |-> IF HasKey(obj, "mode") THEN Member(obj, "mode") ELSE ""]

\* json.Unmarshal(data, &env) of a well-formed document: a missing member
\* leaves the field at its zero value, null leaves the slice nil
Unmarshal(doc) ==
    [PlanExecutionID |->
        IF HasKey(doc, "planExecutionId") THEN Member(doc, "planExecutionId") ELSE "",
     Annotations |->
        IF HasKey(doc, "annotations") /\ ~Member(doc, "annotations").null
           THEN LET items == Member(doc, "annotations").items
                IN  [i \in 1..Len(items) |-> UnmarshalEntry(items[i])]
           ELSE <<>>]

(***************************************************************************)
(* Files.  kind is "absent", "empty" (zero bytes), "corrupt" (bytes that   *)
(* do not parse: foreign content, a partial or a torn write) or "json".    *)
(***************************************************************************)
Absent == [kind |-> "absent", doc |-> <<>>]
Empty == [kind |-> "empty", doc |-> <<>>]
Corrupt == [kind |-> "corrupt", doc |-> <<>>]
File(doc) == [kind |-> "json", doc |-> doc]

\* c.annotationsFile after NewCLI: HARNESS_ANNOTATIONS_FILE names a file in a
\* directory of its own
annotationsFile == "out/annotations.json"

\* filepath.Dir(c.annotationsFile)
Dir(path) == IF path = "out/annotations.json" THEN "out" ELSE "."

VARIABLES
    dirExists,        \* whether the parent directory of the file exists
    final,            \* the content of c.annotationsFile
    tmp,              \* the content of c.annotationsFile + ".tmp"
    now,              \* the wall clock, in seconds
    invocations,      \* how many invocations have started
    pc,               \* where each invocation is
    env,              \* annotate's env
    req,              \* annotate's arguments and HARNESS_EXECUTION_ID
    data,             \* saveEnvelope's data
    fd,               \* where the file WriteFile holds open is now linked
    err,              \* the error annotate returned
    before,           \* history: final as the invocation's loadEnvelope found it
    annotated,        \* history: the contexts of the invocations that succeeded
    planID0           \* history: the first non-empty planExecutionId persisted

vars ==
    <<dirExists, final, tmp, now, invocations,
      pc, env, req, data, fd, err, before, annotated, planID0>>

(***************************************************************************)
(* annotate's merge of one request into the envelope.                      *)
(***************************************************************************)
\* strings.TrimSpace; " " is the only string of the model with white space
\* at either end
TrimSpace(s) == IF s = " " THEN "" ELSE s

\* readSummaryFile had it refused a file of MaxSummaryFileBytes bytes
ReadSummaryFileAtLimit(filePath) ==
    LET f == SummaryFS(filePath)
    IN  IF filePath = "" THEN [err |-> "", text |-> ""]
        ELSE IF ~f.exists
                THEN [err |-> "failed to stat summary file '" \o filePath \o "'", text |-> ""]
        ELSE IF f.size >= MaxSummaryFileBytes
                THEN [err |-> "summary file '" \o filePath \o "' exceeds 65536 bytes", text |-> ""]
        ELSE IF ~f.readable
                THEN [err |-> "failed to read summary file '" \o filePath \o "'", text |-> ""]
        ELSE [err |-> "", text |-> f.data]

\* readSummaryFile: the error it returns ("" for nil) and the text
ReadSummaryFile(filePath) ==
    LET f == SummaryFS(filePath)
    IN  IF filePath = "" THEN [err |-> "", text |-> ""]
        ELSE IF ~f.exists
                THEN [err |-> "failed to stat summary file '" \o filePath \o "'", text |-> ""]
        ELSE IF f.size > MaxSummaryFileBytes
                THEN [err |-> "summary file '" \o filePath \o "' exceeds 65536 bytes", text |-> ""]
        ELSE IF ~f.readable
                THEN [err |-> "failed to read summary file '" \o filePath \o "'", text |-> ""]
        ELSE [err |-> "", text |-> f.data]

\* "Ensure planExecutionId is present at the root"
EnsurePlanExecutionID(e, pe) ==
    IF TrimSpace(e.PlanExecutionID) = "" /\ TrimSpace(pe) # ""
       THEN [e EXCEPT !.PlanExecutionID = pe]
       ELSE e

\* the normalization had it taken an unknown mode for append
NormalizeModeAppend(mode) ==
    CASE mode \in {"replace", "append", "delete"} -> mode
      [] mode = "" -> "replace"
      [] OTHER -> "append"

\* "Normalize mode"
NormalizeMode(mode) ==
    CASE mode \in {"replace", "append", "delete"} -> mode
      [] mode = "" -> "replace"
      [] OTHER -> "replace"

\* "Find existing entry for this context": the first index whose ContextName
\* is contextName; 0 stands for Go's idx == -1 (sequences start at 1)
FindEntry(annotations, contextName) ==
    IF \E i \in 1..Len(annotations) : annotations[i].ContextName = contextName
       THEN CHOOSE i \in 1..Len(annotations) :
              /\ annotations[i].ContextName = contextName
              /\ \A j \in 1..(i-1) : annotations[j].ContextName # contextName
       ELSE 0

\* the new entry had a delete request left it empty
NewEntryEmptyOnDelete(r, summary, mode, t) ==
    [ContextName |-> r.contextName,
     Timestamp   |-> RFC3339(t),
     Style       |-> IF mode = "delete" THEN "" ELSE r.style,
     Summary     |-> IF mode = "delete" THEN "" ELSE summary,
     SummaryFile |-> r.summaryFile,
     Priority    |-> IF mode = "delete" THEN 0 ELSE r.priority,
     Mode        |-> mode]

\* the new entry had it kept the mode flag as given
NewEntryRawMode(r, summary, mode, t) ==
    [ContextName |-> r.contextName,
     Timestamp   |-> RFC3339(t),
     Style       |-> r.style,
     Summary     |-> summary,
     SummaryFile |-> r.summaryFile,
     Priority    |-> r.priority,
     Mode        |-> r.mode]

\* "New context entry"
NewEntry(r, summary, mode, t) ==
    [ContextName |-> r.contextName,
     Timestamp   |-> RFC3339(t),
     Style       |-> r.style,
     Summary     |-> summary,
     SummaryFile |-> r.summaryFile,
     Priority    |-> r.priority,
     Mode        |-> mode]

\* the style had the merge always taken the request's
MergeStyleAlways(stored, style) == style

\* if style != "" { entry.Style = style }
MergeStyle(stored, style) == IF style # "" THEN style ELSE stored

\* the priority had the merge taken every non-zero priority of a request
MergePriorityNonZero(stored, priority) == IF priority # 0 THEN priority ELSE stored

\* the priority had the merge always taken the request's, or added it
MergePriorityAlways(stored, priority) == priority
MergePrioritySum(stored, priority) == IF priority > 0 THEN stored + priority ELSE stored

\* if priority > 0 { entry.Priority = priority }
MergePriority(stored, priority) == IF priority > 0 THEN priority ELSE stored

\* if summaryFile != "" { entry.SummaryFile = summaryFile }
MergeSummaryFile(stored, summaryFile) == IF summaryFile # "" THEN summaryFile ELSE stored

\* the append branch's summary had it put no line break
AppendSummaryNoBreak(stored, summary) ==
    IF summary # "" THEN stored \o summary ELSE stored

\* the append branch's summary
AppendSummary(stored, summary) ==
    IF summary # ""
       THEN IF stored # "" THEN stored \o "\n" \o summary ELSE summary
       ELSE stored

\* the merge had it left the timestamp of the entry
MergeEntryUnstamped(entry, r, summary, mode, t) ==
    IF mode = "delete"
       THEN [entry EXCEPT !.Mode = "delete", !.Summary = "",
                          !.Style = "", !.Priority = 0]
    ELSE IF mode = "replace"
       THEN [entry EXCEPT !.Style = MergeStyle(@, r.style),
                          !.Summary = summary,
                          !.Mode = "replace",
                          !.Priority = MergePriority(@, r.priority),
                          !.SummaryFile = MergeSummaryFile(@, r.summaryFile)]
    ELSE [entry EXCEPT !.Style = MergeStyle(@, r.style),
                       !.Summary = AppendSummary(@, summary),
                       !.Mode = "append",
                       !.Priority = MergePriority(@, r.priority),
                       !.SummaryFile = MergeSummaryFile(@, r.summaryFile)]

\* the merge had its delete branch taken the summary file of the request
MergeEntryDeleteTakesPath(entry, r, summary, mode, t) ==
    LET stamped == [entry EXCEPT !.Timestamp = RFC3339(t)]
    IN  IF mode = "delete"
           THEN [stamped EXCEPT !.Mode = "delete", !.Summary = "",
                                !.Style = "", !.Priority = 0,
                                !.SummaryFile = r.summaryFile]
        ELSE IF mode = "replace"
           THEN [stamped EXCEPT !.Style = IF r.style # "" THEN r.style ELSE @,
                                !.Summary = summary,
                                !.Mode = "replace",
                                !.Priority = IF r.priority > 0 THEN r.priority ELSE @,
                                !.SummaryFile = IF r.summaryFile # "" THEN r.summaryFile ELSE @]
        ELSE [stamped EXCEPT !.Style = IF r.style # "" THEN r.style ELSE @,
                             !.Summary = IF summary = "" THEN @
                                         ELSE IF @ = "" THEN summary
                                         ELSE @ \o "\n" \o summary,
                             !.Mode = "append",
                             !.Priority = IF r.priority > 0 THEN r.priority ELSE @,
                             !.SummaryFile = IF r.summaryFile # "" THEN r.summaryFile ELSE @]

\* "Merge into existing entry based on mode"
MergeEntry(entry, r, summary, mode, t) ==
    LET stamped == [entry EXCEPT !.Timestamp = RFC3339(t)]
    IN  IF mode = "delete"
           THEN [stamped EXCEPT !.Mode = "delete", !.Summary = "",
                                !.Style = "", !.Priority = 0]
        ELSE IF mode = "replace"
           THEN [stamped EXCEPT !.Style = MergeStyle(@, r.style),
                                !.Summary = summary,
                                !.Mode = "replace",
                                !.Priority = MergePriority(@, r.priority),
                                !.SummaryFile = MergeSummaryFile(@, r.summaryFile)]
        ELSE [stamped EXCEPT !.Style = MergeStyle(@, r.style),
                             !.Summary = AppendSummary(@, summary),
                             !.Mode = "append",
                             !.Priority = MergePriority(@, r.priority),
                             !.SummaryFile = MergeSummaryFile(@, r.summaryFile)]

\* annotate between its load and its save, summary being the text
\* readSummaryFile returned and t the reading of the clock
Annotate(e, r, summary, t) ==
    LET e1 == EnsurePlanExecutionID(e, r.executionID)
        mode == NormalizeMode(r.mode)
        idx == FindEntry(e1.Annotations, r.contextName)
    IN  IF idx = 0
           THEN [e1 EXCEPT !.Annotations = Append(@, NewEntry(r, summary, mode, t))]
           ELSE [e1 EXCEPT !.Annotations[idx] = MergeEntry(@, r, summary, mode, t)]

(***************************************************************************)
(* The merge of the variant without modes (src/main.go).  Its entries have *)
(* no mode (Mode stays "", which MarshalEntry leaves out); the metadata    *)
(* its envelope adds (account, project, org, pipeline, stageExecutionId,   *)
(* created_at: each set once from the environment) is left out, and its    *)
(* planExecutionId, written even when empty, reads back as Marshal's does. *)
(***************************************************************************)
\* "Merge into existing entry"
MergeEntryModeless(entry, r, summary, t) ==
    LET content ==
            IF r.style # "" /\ entry.Style # r.style
               THEN [entry EXCEPT !.Style = r.style, !.Summary = summary]
            ELSE IF summary # ""
               THEN [entry EXCEPT !.Summary =
                        IF @ # "" THEN @ \o "\n" \o summary ELSE summary]
            ELSE entry
    IN  [content EXCEPT !.Priority = IF r.priority > 0 THEN r.priority ELSE @,
                        !.SummaryFile = IF r.summaryFile # "" THEN r.summaryFile ELSE @,
                        !.Timestamp = RFC3339(t)]

\* annotate of src/main.go between its load and its save
AnnotateModeless(e, r, summary, t) ==
    LET e1 == IF e.PlanExecutionID = ""
                 THEN [e EXCEPT !.PlanExecutionID = r.executionID]
                 ELSE e
        idx == FindEntry(e1.Annotations, r.contextName)
    IN  IF idx = 0
           THEN [e1 EXCEPT !.Annotations =
                    Append(@, [ContextName |-> r.contextName,
                               Timestamp   |-> RFC3339(t),
                               Style       |-> r.style,
                               Summary     |-> summary,
                               SummaryFile |-> r.summaryFile,
                               Priority    |-> r.priority,
                               Mode        |-> ""])]
           ELSE [e1 EXCEPT !.Annotations[idx] = MergeEntryModeless(@, r, summary, t)]

(***************************************************************************)
(* The state after NewCLI, before any invocation has run.  The file may    *)
(* be absent (with or without its directory), zero bytes long or hold      *)
(* foreign bytes.                                                          *)
(***************************************************************************)
Idle ==
    /\ tmp = Absent
    /\ now = 0
    /\ invocations = 0
    /\ pc = [p \in Procs |-> "idle"]
    /\ env = [p \in Procs |-> EmptyEnvelope]
    /\ req = [p \in Procs |-> NoRequest]
    /\ data = [p \in Procs |-> <<>>]
    /\ fd = [p \in Procs |-> "none"]
    /\ err = [p \in Procs |-> ""]
    /\ before = [p \in Procs |-> Absent]

Init ==
    /\ dirExists \in BOOLEAN
    /\ Dir(annotationsFile) = "." => dirExists
    /\ final \in {Absent, Empty, Corrupt}
    /\ ~dirExists => final = Absent
    /\ annotated = {}
    /\ planID0 = ""
    /\ Idle

\* annotate returns the error e: the process exits and its memory is gone
Returns(p, e) ==
    /\ pc' = [pc EXCEPT ![p] = "failed"]
    /\ err' = [err EXCEPT ![p] = e]
    /\ env' = [env EXCEPT ![p] = EmptyEnvelope]
    /\ req' = [req EXCEPT ![p] = NoRequest]
    /\ data' = [data EXCEPT ![p] = <<>>]

\* annotate returns the error e of readSummaryFile for the request r (r is
\* kept for the properties to tell which request was refused)
Rejects(p, r, e) ==
    /\ pc' = [pc EXCEPT ![p] = "failed"]
    /\ err' = [err EXCEPT ![p] = e]
    /\ env' = [env EXCEPT ![p] = EmptyEnvelope]
    /\ req' = [req EXCEPT ![p] = r]
    /\ data' = [data EXCEPT ![p] = <<>>]

\* annotate goes on to the step at label next
Goto(p, next) ==
    /\ pc' = [pc EXCEPT ![p] = next]
    /\ UNCHANGED <<err, env, req, data>>

\* saveEnvelope returned nil and so does annotate
Succeeds(p) ==
    /\ pc' = [pc EXCEPT ![p] = "done"]
    /\ data' = [data EXCEPT ![p] = <<>>]
    /\ UNCHANGED <<err, env, req>>

(***************************************************************************)
(* The history variables: the contexts annotated so far and the first      *)
(* non-empty planExecutionId the file held.                                *)
(***************************************************************************)
\* the envelope loadEnvelope reads from a file it accepts
Stored(f) == IF f.kind = "json" THEN Unmarshal(f.doc) ELSE EmptyEnvelope

History ==
    /\ annotated' =
          annotated \cup {req'[p].contextName : p \in {q \in Procs : pc[q] # "done" /\ pc'[q] = "done"}}
    /\ planID0' =
          IF planID0 = "" THEN Stored(final').PlanExecutionID ELSE planID0

(***************************************************************************)
(* loadEnvelope.                                                           *)
(***************************************************************************)
\* a new invocation (at most max of them) enters annotate;
\* os.Stat(c.annotationsFile)
LoadStat(p, max) ==
    /\ pc[p] \in {"idle", "done", "failed"}
    /\ invocations < max
    /\ invocations' = invocations + 1
    /\ pc' = [pc EXCEPT ![p] = IF final.kind = "absent" THEN "merge" ELSE "read"]
    /\ env' = [env EXCEPT ![p] = EmptyEnvelope]
    /\ req' = [req EXCEPT ![p] = NoRequest]
    /\ data' = [data EXCEPT ![p] = <<>>]
    /\ err' = [err EXCEPT ![p] = ""]
    /\ before' = [before EXCEPT ![p] = final]
    /\ UNCHANGED <<dirExists, final, tmp, now, fd, annotated, planID0>>

\* loadEnvelope had it taken a file that does not parse for an empty one
LoadReadLenient(p, ok) ==
    /\ pc[p] = "read"
    /\ IF ~ok \/ final.kind = "absent"
          THEN Returns(p, "read annotations file")
       ELSE IF final.kind \in {"empty", "corrupt"}
          THEN Goto(p, "merge")
       ELSE /\ pc' = [pc EXCEPT ![p] = "merge"]
            /\ env' = [env EXCEPT ![p] = Unmarshal(final.doc)]
            /\ UNCHANGED <<err, req, data>>
    /\ before' = [before EXCEPT ![p] = final]
    /\ UNCHANGED <<dirExists, final, tmp, now, invocations, fd, annotated, planID0>>

\* os.ReadFile, the length test and json.Unmarshal
LoadRead(p, ok) ==
    /\ pc[p] = "read"
    /\ IF ~ok \/ final.kind = "absent"
          THEN Returns(p, "read annotations file")
       ELSE IF final.kind = "empty"
          THEN Goto(p, "merge")
       ELSE IF final.kind = "corrupt"
          THEN Returns(p, "invalid annotations file format")
       ELSE /\ pc' = [pc EXCEPT ![p] = "merge"]
            /\ env' = [env EXCEPT ![p] = Unmarshal(final.doc)]
            /\ UNCHANGED <<err, req, data>>
    /\ before' = [before EXCEPT ![p] = final]
    /\ UNCHANGED <<dirExists, final, tmp, now, invocations, fd, annotated, planID0>>

(***************************************************************************)
(* annotate from the load to the call of saveEnvelope.  r is the request   *)
(* of the invocation (its flags and HARNESS_EXECUTION_ID), first used      *)
(* here; t is what time.Now() reads.                                       *)
(***************************************************************************)
AnnotateMerge(p, r, t) ==
    /\ pc[p] = "merge"
    /\ t \in {now, now + 1}
    /\ t <= MaxClock
    /\ LET s == ReadSummaryFile(r.summaryFile)
       IN  IF s.err # ""
              THEN Rejects(p, r, s.err) /\ now' = now
              ELSE /\ pc' = [pc EXCEPT ![p] = "save"]
                   /\ env' = [env EXCEPT ![p] = Annotate(@, r, s.text, t)]
                   /\ req' = [req EXCEPT ![p] = r]
                   /\ now' = t
                   /\ UNCHANGED <<err, data>>
    /\ UNCHANGED <<dirExists, final, tmp, invocations, fd, before, annotated, planID0>>

\* the same steps in src/main.go
AnnotateMergeModeless(p, r, t) ==
    /\ pc[p] = "merge"
    /\ t \in {now, now + 1}
    /\ t <= MaxClock
    /\ LET s == ReadSummaryFile(r.summaryFile)
       IN  IF s.err # ""
              THEN Rejects(p, r, s.err) /\ now' = now
              ELSE /\ pc' = [pc EXCEPT ![p] = "save"]
                   /\ env' = [env EXCEPT ![p] = AnnotateModeless(@, r, s.text, t)]
                   /\ req' = [req EXCEPT ![p] = r]
                   /\ now' = t
                   /\ UNCHANGED <<err, data>>
    /\ UNCHANGED <<dirExists, final, tmp, invocations, fd, before, annotated, planID0>>

(***************************************************************************)
(* saveEnvelope.                                                           *)
(***************************************************************************)
\* the links of the open files after the file at name `from` is renamed onto
\* `to` (to = "orphan" for a removal): an open file follows its inode
Relink(from, to) ==
    [q \in Procs |->
        IF fd[q] = from THEN to
        ELSE IF fd[q] = to /\ to # "orphan" THEN "orphan"
        ELSE fd[q]]

\* json.MarshalIndent, os.MkdirAll(dir) and, of os.WriteFile(tmp, ...), the
\* OpenFile(tmp, O_WRONLY|O_CREATE|O_TRUNC)
SaveOpenTmp(p, okDir, okOpen) ==
    /\ pc[p] = "save"
    /\ IF Dir(annotationsFile) # "." /\ ~okDir
          THEN /\ Returns(p, "failed to create parent dir")
               /\ UNCHANGED <<dirExists, tmp, fd>>
       ELSE IF ~okOpen
          THEN /\ Returns(p, "failed to write temp file")
               /\ dirExists' = TRUE
               /\ UNCHANGED <<tmp, fd>>
       ELSE /\ pc' = [pc EXCEPT ![p] = "write"]
            /\ data' = [data EXCEPT ![p] = Marshal(env[p])]
            /\ dirExists' = TRUE
            /\ tmp' = Empty
            /\ fd' = [fd EXCEPT ![p] = "tmp"]
            /\ UNCHANGED <<err, env, req>>
    /\ UNCHANGED <<final, now, invocations, before, annotated, planID0>>

\* the file the open file of p is linked as
Target(p) ==
    IF fd[p] = "tmp" THEN tmp ELSE IF fd[p] = "final" THEN final ELSE Empty

\* os.WriteFile(tmp, ...): f.Write(data) and f.Close(); n tells how the
\* write ends.  A write over the bytes of another writer of the same file
\* leaves the document, or torn bytes when the other's were longer.
SaveWriteTmp(p, n) ==
    /\ pc[p] = "write"
    /\ n = "torn" => Target(p).kind \notin {"empty"} /\ Target(p) # File(data[p])
    /\ LET new == IF n = "all" THEN File(data[p])
                  ELSE IF n = "none" THEN Target(p)
                  ELSE Corrupt
       IN  /\ tmp' = IF fd[p] = "tmp" THEN new ELSE tmp
           /\ final' = IF fd[p] = "final" THEN new ELSE final
    /\ fd' = [fd EXCEPT ![p] = "none"]
    /\ IF n \in {"all", "torn"}
          THEN Goto(p, "rename")
          ELSE Returns(p, "failed to write temp file")
    /\ UNCHANGED <<dirExists, now, invocations, before>>
    /\ History

\* os.Rename(tmp, c.annotationsFile)
SaveRename(p, ok) ==
    /\ pc[p] = "rename"
    /\ IF ok /\ tmp.kind # "absent"
          THEN /\ final' = tmp
               /\ tmp' = Absent
               /\ fd' = Relink("tmp", "final")
               /\ Succeeds(p)
          ELSE /\ Goto(p, "remove")
               /\ UNCHANGED <<final, tmp, fd>>
    /\ UNCHANGED <<dirExists, now, invocations, before>>
    /\ History

\* _ = os.Remove(c.annotationsFile)
SaveRemoveFinal(p, ok) ==
    /\ pc[p] = "remove"
    /\ IF ok /\ final.kind # "absent"
          THEN /\ final' = Absent
               /\ fd' = Relink("final", "orphan")
          ELSE UNCHANGED <<final, fd>>
    /\ Goto(p, "rename2")
    /\ UNCHANGED <<dirExists, tmp, now, invocations, before, annotated, planID0>>

\* the second os.Rename(tmp, c.annotationsFile)
SaveRenameRetry(p, ok) ==
    /\ pc[p] = "rename2"
    /\ IF ok /\ tmp.kind # "absent"
          THEN /\ final' = tmp
               /\ tmp' = Absent
               /\ fd' = Relink("tmp", "final")
               /\ Succeeds(p)
          ELSE /\ Goto(p, "rmtmp")
               /\ UNCHANGED <<final, tmp, fd>>
    /\ UNCHANGED <<dirExists, now, invocations, before>>
    /\ History

\* _ = os.Remove(tmp); return "failed to finalize write"
SaveRemoveTmp(p, ok) ==
    /\ pc[p] = "rmtmp"
    /\ IF ok /\ tmp.kind # "absent"
          THEN /\ tmp' = Absent
               /\ fd' = Relink("tmp", "orphan")
          ELSE UNCHANGED <<tmp, fd>>
    /\ Returns(p, "failed to finalize write")
    /\ UNCHANGED <<dirExists, final, now, invocations, before, annotated, planID0>>

(***************************************************************************)
(* Spec: the invocations run one after the other, every flag varies, and   *)
(* any system call may fail (the best-effort removal of tmp excepted).     *)
(***************************************************************************)
Next ==
    \E p \in Solo :
        \/ LoadStat(p, MaxInvocations)
        \/ \E ok \in Faults : LoadRead(p, ok)
        \/ \E r \in Requests, t \in 0..MaxClock : AnnotateMerge(p, r, t)
        \/ \E okDir, okOpen \in Faults : SaveOpenTmp(p, okDir, okOpen)
        \/ \E n \in Writes : SaveWriteTmp(p, n)
        \/ \E ok \in Faults : SaveRename(p, ok)
        \/ \E ok \in Faults : SaveRemoveFinal(p, ok)
        \/ \E ok \in Faults : SaveRenameRetry(p, ok)
        \/ \E ok \in NoFaults : SaveRemoveTmp(p, ok)

Spec == Init /\ [][Next]_vars

(***************************************************************************)
(* SpecIds: from an absent file, the invocations run one after the other,  *)
(* the execution id of the environment and the summary file vary, any      *)
(* system call may fail.                                                   *)
(***************************************************************************)
InitIds ==
    /\ dirExists \in BOOLEAN
    /\ Dir(annotationsFile) = "." => dirExists
    /\ final = Absent
    /\ annotated = {}
    /\ planID0 = ""
    /\ Idle

NextIds ==
    \E p \in Solo :
        \/ LoadStat(p, MaxIdInvocations)
        \/ \E ok \in Faults : LoadRead(p, ok)
        \/ \E r \in IdRequests, t \in 0..MaxClock : AnnotateMerge(p, r, t)
        \/ \E okDir, okOpen \in Faults : SaveOpenTmp(p, okDir, okOpen)
        \/ \E n \in Writes : SaveWriteTmp(p, n)
        \/ \E ok \in Faults : SaveRename(p, ok)
        \/ \E ok \in Faults : SaveRemoveFinal(p, ok)
        \/ \E ok \in Faults : SaveRenameRetry(p, ok)
        \/ \E ok \in Faults : SaveRemoveTmp(p, ok)

SpecIds == InitIds /\ [][NextIds]_vars

(***************************************************************************)
(* SpecModes: from an absent file, the invocations run one after the       *)
(* other, the mode flag takes any string, any system call may fail.        *)
(***************************************************************************)
NextModes ==
    \E p \in Solo :
        \/ LoadStat(p, MaxModeInvocations)
        \/ \E ok \in Faults : LoadRead(p, ok)
        \/ \E r \in ModeRequests, t \in 0..MaxClock : AnnotateMerge(p, r, t)
        \/ \E okDir, okOpen \in Faults : SaveOpenTmp(p, okDir, okOpen)
        \/ \E n \in Writes : SaveWriteTmp(p, n)
        \/ \E ok \in Faults : SaveRename(p, ok)
        \/ \E ok \in Faults : SaveRemoveFinal(p, ok)
        \/ \E ok \in Faults : SaveRenameRetry(p, ok)
        \/ \E ok \in Faults : SaveRemoveTmp(p, ok)

SpecModes == InitIds /\ [][NextModes]_vars

(***************************************************************************)
(* SpecModeless: the invocations of the binary of src/main.go run one      *)
(* after the other; any system call may fail.                              *)
(***************************************************************************)
NextModeless ==
    \E p \in Solo :
        \/ LoadStat(p, MaxInvocations)
        \/ \E ok \in Faults : LoadRead(p, ok)
        \/ \E r \in ModelessRequests, t \in 0..MaxClock : AnnotateMergeModeless(p, r, t)
        \/ \E okDir, okOpen \in Faults : SaveOpenTmp(p, okDir, okOpen)
        \/ \E n \in Writes : SaveWriteTmp(p, n)
        \/ \E ok \in Faults : SaveRename(p, ok)
        \/ \E ok \in Faults : SaveRemoveFinal(p, ok)
        \/ \E ok \in Faults : SaveRenameRetry(p, ok)
        \/ \E ok \in Faults : SaveRemoveTmp(p, ok)

SpecModeless == Init /\ [][NextModeless]_vars

(***************************************************************************)
(* SpecRace: two invocations interleave their steps over a file an earlier *)
(* invocation may have written; no system call fails unless the state of   *)
(* the files makes it fail.                                                *)
(***************************************************************************)
\* what an earlier invocation for context build left (the file Spec reaches
\* by one invocation with summary a.md at second 0)
SeedFile ==
    File(Marshal(Annotate(EmptyEnvelope,
                          [NoRequest EXCEPT !.contextName = "build", !.summaryFile = "a.md",
                                            !.mode = "replace"],
                          "A", 0)))

InitRace ==
    /\ dirExists = TRUE
    /\ final \in {Absent, SeedFile}
    /\ annotated = IF final = Absent THEN {} ELSE {"build"}
    /\ planID0 = ""
    /\ Idle

NextRace ==
    \E p \in Procs :
        \/ LoadStat(p, MaxInvocations)
        \/ \E ok \in NoFaults : LoadRead(p, ok)
        \/ \E r \in RaceRequests, t \in 0..MaxClock : AnnotateMerge(p, r, t)
        \/ \E okDir, okOpen \in NoFaults : SaveOpenTmp(p, okDir, okOpen)
        \/ \E n \in RaceWrites : SaveWriteTmp(p, n)
        \/ \E ok \in NoFaults : SaveRename(p, ok)
        \/ \E ok \in NoFaults : SaveRemoveFinal(p, ok)
        \/ \E ok \in NoFaults : SaveRenameRetry(p, ok)
        \/ \E ok \in NoFaults : SaveRemoveTmp(p, ok)

SpecRace == InitRace /\ [][NextRace]_vars

(***************************************************************************)
(* What the properties below read off a state.                             *)
(***************************************************************************)
\* the errors of loadEnvelope and of saveEnvelope
LoadErrors == {"read annotations file", "invalid annotations file format"}
SaveErrors ==
    {"failed to create parent dir", "failed to write temp file", "failed to finalize write"}

\* p is inside saveEnvelope / has merged its request and not failed since
Saving(p) == pc[p] \in {"write", "rename", "remove", "rename2", "rmtmp"}
Merged(p) == pc[p] = "save" \/ Saving(p) \/ pc[p] = "done"

\* the envelope of p's invocation: in memory until saved, then the file's
After(p) == IF pc[p] = "done" THEN Stored(final) ELSE env[p]

\* the text of the summary file of request r
Text(r) == IF r.summaryFile = "" THEN "" ELSE SummaryFS(r.summaryFile).data

\* the contexts of the records of e, and the record of context c
ContextsOf(e) == {e.Annotations[i].ContextName : i \in 1..Len(e.Annotations)}
Record(e, c) ==
    e.Annotations[CHOOSE i \in 1..Len(e.Annotations) : e.Annotations[i].ContextName = c]

\* no invocation is under way
Quiescent == \A p \in Procs : pc[p] \in {"idle", "done", "failed"}

(***************************************************************************)
(* C1.  While two invocations save concurrently, the annotations file      *)
(* always holds the complete serialization of the envelope either of them  *)
(* found or of the envelope either of them saves: a load at any point      *)
(* sees the previous or a new envelope, never anything else.               *)
(***************************************************************************)
C1_RacingSavesAtomic ==
    \A p, q \in Procs :
        (p # q /\ (Saving(p) \/ pc[p] = "done") /\ (Saving(q) \/ pc[q] = "done"))
            => final \in {before[p], before[q],
                          File(Marshal(env[p])), File(Marshal(env[q]))}

\* two saves raced and the file that held a record is gone
C1_RaceLosesFile ==
    \E p, q \in Procs :
        /\ p # q
        /\ pc[p] = "done"
        /\ pc[q] = "failed" /\ err[q] = "failed to finalize write"
        /\ before[p] = SeedFile /\ before[q] = SeedFile
        /\ final = Absent

(***************************************************************************)
(* C2.  When saveEnvelope returns an error, the annotations file is what   *)
(* it was before the call.                                                 *)
(***************************************************************************)
C2_FailedSaveKeepsFile ==
    \A p \in Procs :
        (pc[p] = "failed" /\ err[p] \in SaveErrors) => final = before[p]

\* a save failed and the envelope that was on disk is gone
C2_FailedSaveLosesFile ==
    \E p \in Procs :
        /\ pc[p] = "failed" /\ err[p] = "failed to finalize write"
        /\ before[p].kind = "json"
        /\ final = Absent

(***************************************************************************)
(* C3.  From an absent file, after any number of invocations run one after *)
(* the other, the file holds exactly one record for each context that was  *)
(* annotated, and no two records share a context.                          *)
(***************************************************************************)
C3_OneRecordPerContext ==
    Quiescent =>
        LET e == Stored(final)
        IN  /\ ContextsOf(e) = annotated
            /\ \A i, j \in 1..Len(e.Annotations) :
                  e.Annotations[i].ContextName = e.Annotations[j].ContextName => i = j

\* a context was annotated and no record of it is on disk
C3_RecordLost ==
    /\ Quiescent
    /\ \E c \in annotated : c \notin ContextsOf(Stored(final))

(***************************************************************************)
(* C4.  When the record of context c on disk has a non-zero priority, an   *)
(* update of c in replace or append mode whose priority is 0 leaves that   *)
(* priority, whatever its style and summary.                               *)
(***************************************************************************)
\* p updates a record of non-zero priority with a request of priority 0
ZeroPriorityUpdate(p) ==
    /\ Merged(p)
    /\ req[p].priority = 0
    /\ req[p].contextName \in ContextsOf(Stored(before[p]))
    /\ Record(Stored(before[p]), req[p].contextName).Priority # 0

PriorityKept(p) ==
    /\ req[p].contextName \in ContextsOf(After(p))
    /\ Record(After(p), req[p].contextName).Priority =
          Record(Stored(before[p]), req[p].contextName).Priority

C4_PrioritySticky ==
    \A p \in Procs :
        (ZeroPriorityUpdate(p) /\ req[p].mode # "delete") => PriorityKept(p)

\* the statement as the claim has it: whatever the mode of the update
C4_PriorityStickyAnyMode ==
    \A p \in Procs : ZeroPriorityUpdate(p) => PriorityKept(p)

\* an append of priority 0 is on disk and the record still has priority 5
C4_PriorityStuck ==
    \E p \in Procs :
        /\ pc[p] = "done"
        /\ ZeroPriorityUpdate(p)
        /\ req[p].mode = "append"
        /\ Record(Stored(before[p]), req[p].contextName).Priority = 5
        /\ Record(Stored(final), req[p].contextName).Priority = 5

(***************************************************************************)
(* C5.  Once the file has held a non-empty planExecutionId, every later    *)
(* non-empty planExecutionId of the file is that same value.               *)
(***************************************************************************)
C5_FirstWriteWins ==
    (planID0 # "" /\ Stored(final).PlanExecutionID # "")
        => Stored(final).PlanExecutionID = planID0

\* the file held E1, and after a failed save removed it, it holds E2
C5_IdentityReplaced ==
    /\ planID0 = "E1"
    /\ Stored(final).PlanExecutionID = "E2"

(***************************************************************************)
(* C6.  An append to an existing record whose summary is t, with summary   *)
(* s, stores t, a line break and s; s alone when t is empty; t when s is   *)
(* empty.  With an empty style and priority 0 the append leaves the style  *)
(* and the priority of the record.                                         *)
(***************************************************************************)
\* p appends to a record that is on disk
AppendUpdate(p) ==
    /\ Merged(p)
    /\ req[p].mode = "append"
    /\ req[p].contextName \in ContextsOf(Stored(before[p]))

C6_AppendAccumulates ==
    \A p \in Procs :
        AppendUpdate(p) =>
            LET old == Record(Stored(before[p]), req[p].contextName)
                new == Record(After(p), req[p].contextName)
                s == Text(req[p])
            IN  /\ req[p].contextName \in ContextsOf(After(p))
                /\ (old.Summary # "" /\ s # "") => new.Summary = old.Summary \o "\n" \o s
                /\ (old.Summary = "") => new.Summary = s
                /\ (s = "") => new.Summary = old.Summary
                /\ (req[p].style = "" /\ req[p].priority = 0)
                      => (new.Style = old.Style /\ new.Priority = old.Priority)

\* replace(c, info, "A", 5) then append(c, "K64") is on disk
C6_Appended ==
    \E p \in Procs :
        /\ pc[p] = "done"
        /\ AppendUpdate(p)
        /\ req[p].style = "" /\ req[p].priority = 0 /\ req[p].summaryFile = "max.md"
        /\ LET old == Record(Stored(before[p]), req[p].contextName)
               new == Record(Stored(final), req[p].contextName)
           IN  /\ old.Mode = "replace" /\ old.Summary = "A"
               /\ new.Summary = "A\nK64" /\ new.Style = "info" /\ new.Priority = 5

(***************************************************************************)
(* C7.  A request in replace mode applied a second time leaves the         *)
(* envelope as the first application left it, the timestamp of the record  *)
(* apart.                                                                  *)
(***************************************************************************)
Untimed(entry) == [entry EXCEPT !.Timestamp = ""]

SameExceptTimestamp(e1, e2) ==
    /\ e1.PlanExecutionID = e2.PlanExecutionID
    /\ Len(e1.Annotations) = Len(e2.Annotations)
    /\ \A i \in 1..Len(e1.Annotations) :
          Untimed(e1.Annotations[i]) = Untimed(e2.Annotations[i])

C7_ReplaceIdempotent ==
    \A p \in Procs :
        (Merged(p) /\ req[p].mode \notin {"append", "delete"}) =>
            \A t \in {now, now + 1} :
                SameExceptTimestamp(After(p), Annotate(After(p), req[p], Text(req[p]), t))

\* the same replace request ran twice, a second apart: the second run left
\* the file as it found it but for the timestamp
C7_ReplacedTwice ==
    \E p \in Procs :
        /\ pc[p] = "done"
        /\ req[p].mode = "replace" /\ req[p].style = "info"
        /\ req[p].priority = 5 /\ req[p].summaryFile = "a.md"
        /\ before[p].kind = "json"
        /\ Stored(before[p]) = Annotate(EmptyEnvelope, req[p], "A", 0)
        /\ SameExceptTimestamp(Stored(before[p]), Stored(final))
        /\ Stored(before[p]) # Stored(final)

(***************************************************************************)
(* C8.  An invocation that finds a file that is not an envelope fails      *)
(* before saveEnvelope: the file stays as it was and no .tmp appears.      *)
(***************************************************************************)
C8_CorruptFileRejected ==
    \A p \in Procs :
        before[p].kind = "corrupt" =>
            /\ pc[p] \in {"read", "failed"}
            /\ pc[p] = "failed" => err[p] \in LoadErrors
            /\ final = before[p]
            /\ tmp = Absent

\* the invocation failed on the format of the file
C8_Rejected ==
    \E p \in Procs :
        /\ pc[p] = "failed" /\ err[p] = "invalid annotations file format"
        /\ before[p] = Corrupt /\ final = Corrupt /\ tmp = Absent

(***************************************************************************)
(* C9.  A request whose summary file is missing, unreadable or longer than *)
(* 65536 bytes fails and leaves the annotations file as the invocation     *)
(* found it, the planExecutionId of the environment not stored; no other   *)
(* summary file is refused, one of exactly 65536 bytes included.           *)
(***************************************************************************)
SummaryErrors(path) ==
    {"failed to stat summary file '" \o path \o "'",
     "summary file '" \o path \o "' exceeds 65536 bytes",
     "failed to read summary file '" \o path \o "'"}

\* the summary file of r is given and is missing, unreadable or too long
BadSummary(r) ==
    /\ r.summaryFile # ""
    /\ \/ ~SummaryFS(r.summaryFile).exists
       \/ ~SummaryFS(r.summaryFile).readable
       \/ SummaryFS(r.summaryFile).size > 65536

SummaryRejected(p) ==
    pc[p] = "failed" /\ err[p] \in SummaryErrors(req[p].summaryFile)

C9_SummaryRejectedFirst ==
    \A p \in Procs :
        /\ SummaryRejected(p) => (BadSummary(req[p]) /\ final = before[p])
        /\ Merged(p) => ~BadSummary(req[p])

\* a request with execution id E1 and a summary file of 65537 bytes was
\* refused, and the file on disk is still the one without planExecutionId
C9_Rejected ==
    \E p \in Procs :
        /\ SummaryRejected(p)
        /\ req[p].summaryFile = "big.md" /\ req[p].executionID = "E1"
        /\ before[p].kind = "json" /\ final = before[p]
        /\ Stored(final).PlanExecutionID = ""

(***************************************************************************)
(* C10.  From a file that is absent, or zero bytes long and readable,      *)
(* loadEnvelope returns the empty envelope and no error (reading a file of *)
(* zero bytes can still fail), and the invocation then stores exactly one  *)
(* record: the context, style, summary, summary file and priority of the   *)
(* request, and its mode normalized.                                       *)
(***************************************************************************)
\* p's invocation found no file or a file of zero bytes
Bootstraps(p) == before[p].kind \in {"absent", "empty"}

\* the one record the request r is to leave, the timestamp apart
FirstRecord(r) ==
    [ContextName |-> r.contextName,
     Timestamp   |-> "",
     Style       |-> r.style,
     Summary     |-> Text(r),
     SummaryFile |-> r.summaryFile,
     Priority    |-> r.priority,
     Mode        |-> IF r.mode \in {"replace", "append", "delete"} THEN r.mode ELSE "replace"]

BootstrapStores(p) ==
    /\ pc[p] = "merge" => env[p] = EmptyEnvelope
    /\ Merged(p) =>
          /\ Len(After(p).Annotations) = 1
          /\ Untimed(After(p).Annotations[1]) = FirstRecord(req[p])

IndexOf(e, c) ==
    CHOOSE i \in 1..Len(e.Annotations) : e.Annotations[i].ContextName = c

\* p has merged a request for a context that had no record / had one
Creates(p) == Merged(p) /\ req[p].contextName \notin ContextsOf(Stored(before[p]))
Updates(p) == Merged(p) /\ req[p].contextName \in ContextsOf(Stored(before[p]))

C11_DeleteOfMissingSeeds ==
    \A p \in Procs :
        (Creates(p) /\ req[p].mode = "delete") =>
            /\ req[p].contextName \in ContextsOf(After(p))
            /\ Untimed(Record(After(p), req[p].contextName)) =
                  [ContextName |-> req[p].contextName,
                   Timestamp   |-> "",
                   Style       |-> req[p].style,
                   Summary     |-> Text(req[p]),
                   SummaryFile |-> req[p].summaryFile,
                   Priority    |-> req[p].priority,
                   Mode        |-> "delete"]

\* the statement as the claim has it: the new record is empty
C11_DeleteOfMissingIsEmpty ==
    \A p \in Procs :
        (Creates(p) /\ req[p].mode = "delete") =>
            /\ req[p].contextName \in ContextsOf(After(p))
            /\ LET new == Record(After(p), req[p].contextName)
               IN  /\ new.Style = "" /\ new.Summary = "" /\ new.Priority = 0
                   /\ new.Mode = "delete"

\* delete(c, info, a.md, 5) for a new context c is on disk next to another
\* record, with the summary, style and priority of the request
C11_DeleteSeeded ==
    \E p \in Procs :
        /\ pc[p] = "done" /\ Creates(p) /\ req[p].mode = "delete"
        /\ before[p].kind = "json"
        /\ LET new == Record(Stored(final), req[p].contextName)
           IN  /\ new.Mode = "delete" /\ new.Summary = "A"
               /\ new.Style = "info" /\ new.Priority = 5

(***************************************************************************)
(* C12.  A delete request for a context that has a record empties the      *)
(* style and the summary of the record, sets its priority to 0 and its     *)
(* mode to delete, and leaves its context, its summary file, its place in  *)
(* the sequence and the length of the sequence.                            *)
(***************************************************************************)
C12_DeleteClearsInPlace ==
    \A p \in Procs :
        (Updates(p) /\ req[p].mode = "delete") =>
            LET i == IndexOf(Stored(before[p]), req[p].contextName)
                old == Stored(before[p]).Annotations[i]
            IN  /\ Len(After(p).Annotations) = Len(Stored(before[p]).Annotations)
                /\ Untimed(After(p).Annotations[i]) =
                      [ContextName |-> old.ContextName,
                       Timestamp   |-> "",
                       Style       |-> "",
                       Summary     |-> "",
                       SummaryFile |-> old.SummaryFile,
                       Priority    |-> 0,
                       Mode        |-> "delete"]

\* a record with content and summary file a.md was deleted by a request that
\* carries style, priority and summary file max.md
C12_Deleted ==
    \E p \in Procs :
        /\ pc[p] = "done" /\ Updates(p) /\ req[p].mode = "delete"
        /\ req[p].summaryFile = "max.md" /\ req[p].style = "info" /\ req[p].priority = 5
        /\ Record(Stored(before[p]), req[p].contextName).Summary = "A"
        /\ Record(Stored(before[p]), req[p].contextName).SummaryFile = "a.md"
        /\ Record(Stored(final), req[p].contextName).SummaryFile = "a.md"
        /\ Record(Stored(final), req[p].contextName).Summary = ""

(***************************************************************************)
(* C13.  A replace or append request of negative priority n stores n in a  *)
(* new record, and leaves the priority of a record that exists.            *)
(***************************************************************************)
NegativePriority(p) == Merged(p) /\ req[p].priority < 0 /\ req[p].mode # "delete"

C13_NegativePriority ==
    \A p \in Procs :
        NegativePriority(p) =>
            /\ req[p].contextName \in ContextsOf(After(p))
            /\ Record(After(p), req[p].contextName).Priority =
                  IF Updates(p)
                     THEN Record(Stored(before[p]), req[p].contextName).Priority
                     ELSE req[p].priority

\* the statement as the claim has it: n is stored, record or no record
C13_NegativePriorityVerbatim ==
    \A p \in Procs :
        NegativePriority(p) =>
            /\ req[p].contextName \in ContextsOf(After(p))
            /\ Record(After(p), req[p].contextName).Priority = req[p].priority

\* an append of priority -1 to a record of priority 5 is on disk: still 5
C13_NegativeIgnored ==
    \E p \in Procs :
        /\ pc[p] = "done" /\ Updates(p) /\ NegativePriority(p)
        /\ req[p].mode = "append"
        /\ Record(Stored(before[p]), req[p].contextName).Priority = 5
        /\ Record(Stored(final), req[p].contextName).Priority = 5

(***************************************************************************)
(* C14.  A mode that is not replace, append or delete, the empty string    *)
(* included, acts as replace does.  Every record on disk has one of the    *)
(* three modes: each invocation leaves the normalized mode of its request  *)
(* in the record of its context and the modes of the other records as      *)
(* they were.                                                              *)
(***************************************************************************)
KnownModes == {"replace", "append", "delete"}

C14_ModesNormalized ==
    /\ \A i \in 1..Len(Stored(final).Annotations) :
          Stored(final).Annotations[i].Mode \in KnownModes
    /\ \A p \in Procs :
          Merged(p) =>
              LET c == req[p].contextName
                  asReplace == [req[p] EXCEPT !.mode = "replace"]
              IN  /\ c \in ContextsOf(After(p))
                  /\ Record(After(p), c).Mode =
                        IF req[p].mode \in KnownModes THEN req[p].mode ELSE "replace"
                  /\ \A d \in ContextsOf(After(p)) \ {c} :
                        /\ d \in ContextsOf(Stored(before[p]))
                        /\ Record(After(p), d).Mode = Record(Stored(before[p]), d).Mode
                  /\ req[p].mode \notin KnownModes =>
                        SameExceptTimestamp(After(p),
                            Annotate(Stored(before[p]), asReplace, Text(req[p]), now))

\* an appended record was rewritten by a request of mode "APPEND", which
\* replaced its summary, next to a record of mode delete
C14_UnknownModeReplaced ==
    \E p \in Procs :
        /\ pc[p] = "done" /\ Updates(p)
        /\ req[p].mode = "APPEND" /\ req[p].summaryFile = "a.md"
        /\ Record(Stored(before[p]), req[p].contextName).Mode = "append"
        /\ Record(Stored(final), req[p].contextName).Mode = "replace"
        /\ Record(Stored(final), req[p].contextName).Summary = "A"
        /\ \E d \in ContextsOf(Stored(final)) : Record(Stored(final), d).Mode = "delete"

(***************************************************************************)
(* C15.  A replace of an existing record stores the summary of the request *)
(* (an empty one too), the style of the request when it is not empty, the  *)
(* summary file of the request when it is not empty, and the mode replace; *)
(* no replace or append empties a style that was not empty.                *)
(***************************************************************************)
C15_ReplaceOverwrites ==
    \A p \in Procs :
        Updates(p) =>
            LET old == Record(Stored(before[p]), req[p].contextName)
                new == Record(After(p), req[p].contextName)
            IN  /\ req[p].mode \notin {"append", "delete"} =>
                      /\ new.Summary = Text(req[p])
                      /\ new.Style = IF req[p].style # "" THEN req[p].style ELSE old.Style
                      /\ new.SummaryFile =
                            IF req[p].summaryFile # "" THEN req[p].summaryFile
                                                       ELSE old.SummaryFile
                      /\ new.Mode = "replace"
                /\ (req[p].mode # "delete" /\ old.Style # "") => new.Style # ""

\* a replace with no style and no summary file emptied the summary of a
\* record and left its style and its summary file
C15_ReplacedWithEmpty ==
    \E p \in Procs :
        /\ pc[p] = "done" /\ Updates(p)
        /\ req[p].mode = "replace" /\ req[p].style = "" /\ req[p].summaryFile = ""
        /\ LET old == Record(Stored(before[p]), req[p].contextName)
               new == Record(Stored(final), req[p].contextName)
           IN  /\ old.Summary = "A" /\ old.Style = "info" /\ old.Mode = "append"
               /\ new.Summary = "" /\ new.Style = "info"
               /\ new.SummaryFile = "a.md" /\ new.Mode = "replace"

(***************************************************************************)
(* C16.  Two invocations, one per process, on the same file: once both     *)
(* have ended, the file is the envelope of one that saved.  For contexts   *)
(* that differ: when neither loaded what the other saved (and each saves   *)
(* a change), the update of one of them is not in the file; when one       *)
(* loaded what the other saved, both updates are.                          *)
(***************************************************************************)
\* each process has run one invocation and both have ended
BothEnded ==
    /\ invocations = 2
    /\ \A p \in Procs : pc[p] \in {"done", "failed"}

\* the file holds the record p's invocation left for its context
UpdatePresent(p) ==
    /\ req[p].contextName \in ContextsOf(Stored(final))
    /\ Record(Stored(final), req[p].contextName) = Record(env[p], req[p].contextName)

\* p's invocation saves a file other than the one it loaded
Changes(p) == File(Marshal(env[p])) # before[p]

\* q loaded the file p saved
LoadedFrom(q, p) == Changes(p) /\ before[q] = File(Marshal(env[p]))

C16_LastWriterWins ==
    BothEnded =>
        /\ (\E p \in Procs : pc[p] = "done")
              => final \in {File(Marshal(env[p])) : p \in {q \in Procs : pc[q] = "done"}}
        /\ \A p, q \in Procs :
              (/\ p # q /\ pc[p] = "done" /\ pc[q] = "done"
               /\ req[p].contextName # req[q].contextName) =>
                  /\ (Changes(p) /\ Changes(q) /\ ~LoadedFrom(q, p) /\ ~LoadedFrom(p, q))
                        => (~UpdatePresent(p) \/ ~UpdatePresent(q))
                  /\ LoadedFrom(q, p) => (UpdatePresent(p) /\ UpdatePresent(q))

\* both loaded the absent file, one returned success for context test, the
\* other failed, and there is no file
C16_BothUpdatesLost ==
    \E p, q \in Procs :
        /\ BothEnded /\ p # q
        /\ pc[p] = "done" /\ req[p].contextName = "test"
        /\ pc[q] = "failed"
        /\ before[p] = Absent /\ before[q] = Absent
        /\ final = Absent

\* the part of C16 that the saves of C1 do not break: with both saved
C16_WhenBothSaved ==
    (BothEnded /\ \A p \in Procs : pc[p] = "done") => C16_LastWriterWins

(***************************************************************************)
(* C17.  While one saveEnvelope runs over an annotations file that holds   *)
(* an envelope, the file holds that envelope or the new one at every       *)
(* point, the retry after a failed rename included: a load never finds     *)
(* the file missing or partly written.                                     *)
(***************************************************************************)
C17_ReaderSeesWholeFile ==
    \A p \in Procs :
        (Saving(p) /\ before[p].kind = "json")
            => final \in {before[p], File(Marshal(env[p]))}

\* between the removal of the destination and the second rename there is
\* no annotations file: a load returns the empty envelope
C17_FileMissingDuringSave ==
    \E p \in Procs :
        /\ pc[p] = "rename2"
        /\ before[p].kind = "json"
        /\ final = Absent /\ tmp = File(Marshal(env[p]))
        /\ Stored(final) = EmptyEnvelope

(***************************************************************************)
(* C18.  An invocation rewrites the record of its context at the index it  *)
(* had, or appends a new record at the end, and leaves every other record  *)
(* at its index with all its fields; records stay in insertion order and   *)
(* the sequence on disk is never shorter after an invocation than before.  *)
(***************************************************************************)
\* the merge of p kept every record but that of its context where it was
FrameOfMerge(p) ==
    LET b == Stored(before[p]).Annotations
        a == After(p).Annotations
        c == req[p].contextName
    IN  IF Updates(p)
           THEN /\ Len(a) = Len(b)
                /\ a[IndexOf(Stored(before[p]), c)].ContextName = c
                /\ \A j \in 1..Len(b) : j # IndexOf(Stored(before[p]), c) => a[j] = b[j]
           ELSE /\ Len(a) = Len(b) + 1
                /\ a[Len(a)].ContextName = c
                /\ \A j \in 1..Len(b) : a[j] = b[j]

C18_OrderAndFrame ==
    \A p \in Procs :
        /\ Merged(p) => FrameOfMerge(p)
        /\ pc[p] \in {"done", "failed"}
              => Len(Stored(final).Annotations) >= Len(Stored(before[p]).Annotations)

\* an invocation found a record on disk, failed in its save, and the
\* sequence on disk is empty
C18_SequenceShrank ==
    \E p \in Procs :
        /\ pc[p] = "failed" /\ err[p] \in SaveErrors
        /\ Len(Stored(before[p]).Annotations) = 1
        /\ Len(Stored(final).Annotations) = 0

\* the part of C18 that a failed save does not break
C18_FrameOfEveryMerge ==
    \A p \in Procs :
        /\ Merged(p) => FrameOfMerge(p)
        /\ pc[p] = "done"
              => Len(Stored(final).Annotations) >= Len(Stored(before[p]).Annotations)

(***************************************************************************)
(* C19.  Every invocation that merges, in any mode and for a new or an     *)
(* existing record, stamps the record of its context with the time it      *)
(* read; the clock never going back, no timestamp on disk is later than    *)
(* the clock and the timestamp of a record never decreases.                *)
(***************************************************************************)
\* the timestamp s is that of a second from 0 to t
NotAfter(s, t) == \E t0 \in 0..t : s = RFC3339(t0)

C19_TimestampsFollowClock ==
    /\ \A i \in 1..Len(Stored(final).Annotations) :
          NotAfter(Stored(final).Annotations[i].Timestamp, now)
    /\ \A p \in Procs :
          Merged(p) =>
              /\ req[p].contextName \in ContextsOf(After(p))
              /\ Record(After(p), req[p].contextName).Timestamp = RFC3339(now)
              /\ Updates(p) =>
                    NotAfter(Record(Stored(before[p]), req[p].contextName).Timestamp, now)

\* a delete of a record stamped at second 0 ran at second 1 and is on disk
C19_DeleteStamped ==
    \E p \in Procs :
        /\ pc[p] = "done" /\ Updates(p) /\ req[p].mode = "delete"
        /\ now = 1
        /\ Record(Stored(before[p]), req[p].contextName).Timestamp = RFC3339(0)
        /\ Record(Stored(final), req[p].contextName).Timestamp = RFC3339(1)

(***************************************************************************)
(* C20.  In the variant without modes, an invocation for a context that    *)
(* has a record, with a summary file that is not empty, stores the summary *)
(* of the record, a line break and the text of the file (the text alone    *)
(* when the stored summary is empty): what the record held stays.          *)
(***************************************************************************)
C20_ModelessAppends ==
    \A p \in Procs :
        (Updates(p) /\ Text(req[p]) # "") =>
            LET old == Record(Stored(before[p]), req[p].contextName)
                new == Record(After(p), req[p].contextName)
            IN  new.Summary = IF old.Summary # ""
                                 THEN old.Summary \o "\n" \o Text(req[p])
                                 ELSE Text(req[p])

\* a record without style held "A"; an invocation with style info and
\* summary file max.md is on disk, and the record holds "K64" only
C20_SummaryReplaced ==
    \E p \in Procs :
        /\ pc[p] = "done" /\ Updates(p)
        /\ req[p].style = "info" /\ req[p].summaryFile = "max.md"
        /\ Record(Stored(before[p]), req[p].contextName).Style = ""
        /\ Record(Stored(before[p]), req[p].contextName).Summary = "A"
        /\ Record(Stored(final), req[p].contextName).Summary = "K64"

====
